---- MODULE Spec2Model ----
(***************************************************************************)
(* WeChat document de-duplication: dedup.py (the repository's root script, *)
(* variant "root") and wechat-dedup/scripts/dedup.py (the packaged script, *)
(* variant "skill").  The model follows one run of main() over a small     *)
(* disk, with an external actor that may delete scanned files at any time. *)
(*                                                                         *)
(* A file is identified by its absolute path; paths are indices into the   *)
(* table AllPaths.  A file's content is a sequence of 8192-byte chunks;    *)
(* its size and its MD5 digest are computed from the content.  MD5 is      *)
(* modelled as collision free on the contents of the model.                *)
(***************************************************************************)
EXTENDS Integers, Sequences, FiniteSets, TLC

(* ------------------------------ bounds -------------------------------- *)

\* number of files on the disk (the first MaxFiles entries of AllPaths)
MaxFiles == 3
\* creation timestamps are 1..MaxTime
MaxTime == 2
\* number of external deletions during one run
MaxVanish == 1
\* number of roots handed to scan_documents in SpecPlan
MaxRoots == 2

(* ------------------------------ the disk ------------------------------ *)

XF == <<"xwechat_files">>
AS == <<"Application Support">>

WECHAT_PATHS == <<XF, AS>>
WECHAT_BASE == XF

AllPaths ==
  << [dir |-> XF \o <<"u1", "msg", "file">>,   stem |-> "a", suffix |-> ".pdf"],
     [dir |-> XF \o <<"u2", "msg", "file">>,   stem |-> "a", suffix |-> ".pdf"],
     [dir |-> XF \o <<"u1", "msg", "file">>,   stem |-> "b", suffix |-> ".PDF"],
     [dir |-> AS,                              stem |-> "a", suffix |-> ".pdf"],
     [dir |-> XF \o <<"u1", "msg", "attach">>, stem |-> "c", suffix |-> ".jpg"],
     [dir |-> XF \o <<"u1", "msg", "file">>,   stem |-> "n", suffix |-> ".txt"] >>

NPaths == IF MaxFiles < Len(AllPaths) THEN MaxFiles ELSE Len(AllPaths)
Paths == 1..NPaths

\* contents: sequences of chunks (a chunk is named by a number)
Contents == { <<0>>, <<0, 0>>, <<0, 1>> }
Times == 1..MaxTime
\* float('inf'): later than every timestamp a file can have
Inf == MaxTime + 1
\* None, as returned by get_file_hash
None == 0

ChunkSize == 8192
MIN_FILE_SIZE == 10 * 1024

VARIABLES
  variant,      \* "root": dedup.py, "skill": wechat-dedup/scripts/dedup.py
  attrs,        \* path -> [content, ctime, readable], fixed during a run
  present,      \* the scanned-tree files that exist on disk now
  roots,        \* the paths handed to scan_documents
  pc,           \* position of main()
  documents,    \* scan result: sequence of [type, files]
  groups,       \* duplicate groups found: sequence of [type, hash, files]
  selections,   \* select_keeper results, one per group handled; the field
                \* seen is history: the files on disk when it was called
  results,      \* results dict of main: [groups, removed_count, saved_bytes]
  group_info,   \* the group_info dict main is filling
  gi, ri,       \* loop positions: group index, removal index
  answer,       \* what input() returned
  quarantine,   \* [exists, writable, entries, report]
  moved_count,  \* moved_count of the skill variant
  moves,        \* history: every completed shutil.move
  mutations,    \* history: number of filesystem mutations made by the run
  output,       \* what the run printed at its end
  error,        \* the exception that ended the run, or "none"
  vanished      \* number of external deletions so far

vars == << variant, attrs, present, roots, pc, documents, groups, selections,
           results, group_info, gi, ri, answer, quarantine, moved_count, moves, mutations,
           output, error, vanished >>

(* ------------------------------ helpers ------------------------------- *)

Range(s) == { s[i] : i \in 1..Len(s) }

RECURSIVE SumSeq(_)
SumSeq(s) == IF s = <<>> THEN 0 ELSE Head(s) + SumSeq(Tail(s))

RECURSIVE Concat(_)
Concat(ss) == IF ss = <<>> THEN <<>> ELSE Head(ss) \o Concat(Tail(ss))

\* the distinct elements of s, in order of first appearance (dict key order)
RECURSIVE KeysOf(_)
KeysOf(s) ==
  IF s = <<>> THEN <<>>
  ELSE LET r == KeysOf(SubSeq(s, 1, Len(s) - 1))
           x == s[Len(s)]
       IN  IF x \in Range(r) THEN r ELSE Append(r, x)

IsPrefix(a, b) == Len(a) <= Len(b) /\ SubSeq(b, 1, Len(a)) = a

Name(p) == AllPaths[p].stem \o AllPaths[p].suffix

\* str.lower() on the suffixes of the model
Lower(s) ==
  CASE s = ".PDF" -> ".pdf"
    [] s = ".DOC" -> ".doc"
    [] s = ".JPG" -> ".jpg"
    [] OTHER -> s

(* ------------------------- stat, hash, ctime -------------------------- *)

Exists(p, pres) == p \in pres

\* doc.stat().st_size; the caller tests Exists first (stat raises otherwise)
Size(p) == Len(attrs[p].content) * ChunkSize

\* hashlib.md5 over the chunks read: an injective encoding of the content
RECURSIVE Md5(_, _)
Md5(h, chunks) ==
  IF chunks = <<>> THEN h ELSE Md5(2 * h + Head(chunks), Tail(chunks))

get_file_hash(p, pres) ==
  IF Exists(p, pres) /\ attrs[p].readable
  THEN Md5(1, attrs[p].content)
  ELSE None

\* a get_creation_time that answers 0 when the stat fails
get_creation_time_zero(p, pres) ==
  IF Exists(p, pres) THEN attrs[p].ctime ELSE 0

get_creation_time(p, pres) ==
  IF Exists(p, pres) THEN attrs[p].ctime ELSE Inf

(* --------------------------- scan_documents --------------------------- *)

\* the directories of the disk: those on the way to a file of AllPaths
DirExists(d) == \E i \in 1..Len(AllPaths) : IsPrefix(d, AllPaths[i].dir)

\* d.rglob('*') kept to regular files: the files below directory d, in the
\* order the directory walk yields them
RGlob(d, pres) ==
  SelectSeq([i \in 1..NPaths |-> i],
            LAMBDA p : Exists(p, pres) /\ IsPrefix(d, AllPaths[p].dir))

DocExtensions == { ".pdf", ".doc", ".docx" }

\* dedup.py: scan_documents(paths) -> list
scan_documents_root(paths, pres) ==
  Concat([ k \in 1..Len(paths) |->
           IF ~DirExists(paths[k]) THEN <<>>
           ELSE SelectSeq(RGlob(paths[k], pres),
                  LAMBDA p : Lower(AllPaths[p].suffix) \in DocExtensions) ])

SCAN_TARGETS ==
  << [name |-> "file",   pattern |-> <<"msg", "file">>,
      extensions |-> { ".pdf", ".doc", ".docx" }],
     [name |-> "attach", pattern |-> <<"msg", "attach">>,
      extensions |-> { ".dat", ".jpg", ".jpeg", ".png", ".gif" }],
     [name |-> "video",  pattern |-> <<"msg", "video">>,
      extensions |-> { ".mp4", ".mov", ".avi" }] >>

\* base_path.glob('*/msg/<kind>'): the directories base/<any>/msg/<kind>
TargetDirs(base, pattern) ==
  LET n == Len(base) + 1 + Len(pattern)
      long == SelectSeq([ i \in 1..Len(AllPaths) |-> AllPaths[i].dir ],
                        LAMBDA d : Len(d) >= n)
  IN  KeysOf(SelectSeq([ i \in 1..Len(long) |-> SubSeq(long[i], 1, n) ],
        LAMBDA d : IsPrefix(base, d) /\ SubSeq(d, Len(base) + 2, n) = pattern))

\* wechat-dedup/scripts/dedup.py: scan_documents(base_path, targets, min_size)
\* -> dict, here the sequence of its items
scan_documents_skill(base, targets, min_size, pres) ==
  IF ~DirExists(base) THEN <<>> ELSE
  LET filesOf(t) ==
        LET dirs == TargetDirs(base, t.pattern)
        IN  Concat([ k \in 1..Len(dirs) |->
              SelectSeq(RGlob(dirs[k], pres),
                LAMBDA p : /\ Lower(AllPaths[p].suffix) \in t.extensions
                           /\ ~(Size(p) < min_size)) ])
      all == [ k \in 1..Len(targets) |->
               [type |-> targets[k].name, files |-> filesOf(targets[k])] ]
  IN  SelectSeq(all, LAMBDA r : r.files # <<>>)

(* --------------------------- find_duplicates -------------------------- *)

\* first pass: size_groups, a dict size -> list in insertion order
SizeGroups(docs, pres) ==
  LET ok    == SelectSeq(docs, LAMBDA p : Exists(p, pres))
      sizes == KeysOf([ i \in 1..Len(ok) |-> Size(ok[i]) ])
  IN  [ k \in 1..Len(sizes) |->
        SelectSeq(ok, LAMBDA p : Size(p) = sizes[k]) ]

\* a find_duplicates that appends every file, its hash None included
HashUsableAlways(h) == TRUE

\* the test "if file_hash:" that guards hash_groups[file_hash].append
HashUsable(h) == h # None

\* second pass: the (file, hash) pairs appended to hash_groups, in order
Hashed(docs, pres) ==
  LET sg    == SizeGroups(docs, pres)
      big   == SelectSeq(sg, LAMBDA fs : ~(Len(fs) < 2))
      files == Concat(big)
      pairs == [ i \in 1..Len(files) |->
                 [file |-> files[i], hash |-> get_file_hash(files[i], pres)] ]
  IN  SelectSeq(pairs, LAMBDA r : HashUsable(r.hash))

\* find_duplicates(documents) -> dict hash -> files, here its items in order
find_duplicates(docs, pres) ==
  LET hashed == Hashed(docs, pres)
      keys   == KeysOf([ i \in 1..Len(hashed) |-> hashed[i].hash ])
      hg     == [ k \in 1..Len(keys) |->
                  LET mine == SelectSeq(hashed, LAMBDA r : r.hash = keys[k])
                  IN  [hash  |-> keys[k],
                       files |-> [ i \in 1..Len(mine) |-> mine[i].file ]] ]
  IN  SelectSeq(hg, LAMBDA g : Len(g.files) >= 2)

(* ---------------------------- select_keeper --------------------------- *)

\* an insertion that puts x before the elements of equal key
InsertUnstable(sorted, x, key) ==
  LET n == Cardinality({ i \in 1..Len(sorted) : key[sorted[i]] < key[x] })
  IN  SubSeq(sorted, 1, n) \o <<x>> \o SubSeq(sorted, n + 1, Len(sorted))

\* sorted(files, key=...): stable, ascending; key is a function on the files.
\* x goes after every element whose key is not greater than its own.
InsertStable(sorted, x, key) ==
  LET n == Cardinality({ i \in 1..Len(sorted) : key[sorted[i]] <= key[x] })
  IN  SubSeq(sorted, 1, n) \o <<x>> \o SubSeq(sorted, n + 1, Len(sorted))

RECURSIVE SortedBy(_, _)
SortedBy(files, key) ==
  IF files = <<>> THEN <<>>
  ELSE InsertStable(SortedBy(SubSeq(files, 1, Len(files) - 1), key),
                    files[Len(files)], key)

\* select_keeper(files) -> (keeper, to_remove)
select_keeper(files, pres) ==
  LET key == [ p \in Paths |-> get_creation_time(p, pres) ]
      sorted_files == SortedBy(files, key)
  IN  [keeper |-> Head(sorted_files), to_remove |-> Tail(sorted_files)]

(* ------------------------------ the disk ------------------------------ *)

FileAttrs == [content : Contents, ctime : Times, readable : BOOLEAN]

NoQuarantine == [exists |-> FALSE, creatable |-> TRUE, writable |-> TRUE,
                 entries |-> {}, report |-> "none", text |-> <<>>]
NoResults == [groups |-> <<>>, removed_count |-> 0, saved_bytes |-> 0]
NoGroupInfo == [type |-> "", keeper |-> 0, removed |-> <<>>]

\* the variables main() alone uses, before main() has started
MainIdle ==
  /\ results = NoResults
  /\ group_info = NoGroupInfo
  /\ ri = 1
  /\ answer = <<>>
  /\ quarantine = NoQuarantine
  /\ moved_count = 0
  /\ moves = <<>>
  /\ mutations = 0
  /\ output = "none"
  /\ error = "none"
  /\ vanished = 0

MainVars == << results, group_info, ri, answer, quarantine, moved_count, moves,
               mutations, output, error >>

\* an external actor deletes a scanned file
Vanish ==
  /\ pc \notin {"done", "cancelled", "exit", "crashed"}
  /\ vanished < MaxVanish
  /\ \E p \in present :
       /\ present' = present \ {p}
       /\ vanished' = vanished + 1
  /\ UNCHANGED << variant, attrs, roots, pc, documents, groups, selections,
                  gi, MainVars >>

(* --------------- the functions, called one after another -------------- *)

CallScan ==
  /\ pc = "scan"
  /\ documents' = << [type |-> "doc",
                      files |-> scan_documents_root(roots, present)] >>
  /\ pc' = "find"
  /\ UNCHANGED << variant, attrs, present, roots, groups, selections, gi,
                  MainVars, vanished >>

CallFind ==
  /\ pc = "find"
  /\ LET found == find_duplicates(documents[1].files, present)
     IN  /\ groups' = [ k \in 1..Len(found) |->
                        [type |-> "doc", hash |-> found[k].hash,
                         files |-> found[k].files] ]
         /\ pc' = IF found = <<>> THEN "done" ELSE "select"
  /\ gi' = 1
  /\ UNCHANGED << variant, attrs, present, roots, documents, selections,
                  MainVars, vanished >>

CallSelect ==
  /\ pc = "select"
  /\ LET files == groups[gi].files
         sel   == select_keeper(files, present)
     IN  selections' = Append(selections,
                         [files |-> files, keeper |-> sel.keeper,
                          to_remove |-> sel.to_remove, seen |-> present])
  /\ gi' = gi + 1
  /\ pc' = IF gi = Len(groups) THEN "done" ELSE "select"
  /\ UNCHANGED << variant, attrs, present, roots, documents, groups,
                  MainVars, vanished >>

\* the orders in which a scan can list the files
Orders ==
  { s \in [1..NPaths -> Paths] : \A i, j \in 1..NPaths : i # j => s[i] # s[j] }

\* find_duplicates on any list of files; a listed file may be missing,
\* unreadable, or a copy of another
InitFind ==
  /\ variant = "root"
  /\ roots = <<>>
  /\ present \in SUBSET Paths
  /\ attrs \in [Paths -> [content : Contents, ctime : {1}, readable : BOOLEAN]]
  /\ \A p \in Paths \ present : attrs[p] = [content |-> <<0>>, ctime |-> 1,
                                             readable |-> TRUE]
  /\ \E o \in Orders : documents = << [type |-> "doc", files |-> o] >>
  /\ pc = "find"
  /\ groups = <<>> /\ selections = <<>> /\ gi = 1
  /\ MainIdle

NextFind == CallFind \/ CallSelect

SpecFind == InitFind /\ [][NextFind]_vars

\* find_duplicates then select_keeper on files that may vanish meanwhile
InitKeeper ==
  /\ variant = "root"
  /\ roots = <<>>
  /\ present = Paths
  /\ attrs \in [Paths -> [content : {<<0, 0>>, <<0, 1>>}, ctime : Times,
                          readable : {TRUE}]]
  /\ \E o \in Orders : documents = << [type |-> "doc", files |-> o] >>
  /\ pc = "find"
  /\ groups = <<>> /\ selections = <<>> /\ gi = 1
  /\ MainIdle

NextKeeper == Vanish \/ CallFind \/ CallSelect

SpecKeeper == InitKeeper /\ [][NextKeeper]_vars

\* the roots scan_documents of dedup.py may be handed
RootChoices == { XF, XF \o <<"u1", "msg", "file">>, AS, <<"missing">> }
RootLists ==
  { r \in UNION { [1..n -> RootChoices] : n \in 1..MaxRoots } :
      \A i, j \in 1..Len(r) : i # j => r[i] # r[j] }

\* scan_documents, find_duplicates, select_keeper on any list of roots
InitScan ==
  /\ variant = "root"
  /\ roots \in RootLists
  /\ present = Paths
  /\ attrs \in [Paths -> [content : Contents, ctime : Times, readable : {TRUE}]]
  /\ documents = <<>>
  /\ pc = "scan"
  /\ groups = <<>> /\ selections = <<>> /\ gi = 1
  /\ MainIdle

NextScan == CallScan \/ CallFind \/ CallSelect

SpecScan == InitScan /\ [][NextScan]_vars

(* -------------------------- move_to_quarantine ------------------------ *)

Taken(q) == { e.name : e \in q.entries }

\* the while loop of move_to_quarantine: the first name stem_counter.suffix
\* that does not exist; it ends because the directory holds finitely many names
RECURSIVE FreeName(_, _, _, _)
FreeName(stem, suffix, counter, taken) ==
  LET target_path == stem \o "_" \o ToString(counter) \o suffix
  IN  IF target_path \in taken
      THEN FreeName(stem, suffix, counter + 1, taken)
      ELSE target_path

\* a move_to_quarantine without the collision loop
TargetPathNoLoop(p, taken) == Name(p)

\* the target_path move_to_quarantine hands to shutil.move
TargetPath(p, taken) ==
  IF Name(p) \in taken
  THEN FreeName(AllPaths[p].stem, AllPaths[p].suffix, 1, taken)
  ELSE Name(p)

(* -------------------------------- main -------------------------------- *)

\* str.strip() and str.lower() on the characters of the model
IsSpace(c) == c \in {" ", "\t", "\n"}

RECURSIVE LStrip(_)
LStrip(a) == IF a # <<>> /\ IsSpace(Head(a)) THEN LStrip(Tail(a)) ELSE a

RECURSIVE RStrip(_)
RStrip(a) ==
  IF a # <<>> /\ IsSpace(a[Len(a)]) THEN RStrip(SubSeq(a, 1, Len(a) - 1)) ELSE a

Strip(a) == RStrip(LStrip(a))

LowerChar(c) ==
  CASE c = "Y" -> "y"
    [] c = "N" -> "n"
    [] c = "E" -> "e"
    [] c = "S" -> "s"
    [] OTHER -> c

LowerStr(a) == [ i \in 1..Len(a) |-> LowerChar(a[i]) ]

\* a gate that stops only on the answer n
ConfirmedUnlessNo(ans) == LowerStr(Strip(ans)) # <<"n">>

\* input(...).strip().lower() != 'y' leaves main; Confirmed is its negation
Confirmed(ans) == LowerStr(Strip(ans)) = <<"y">>

\* what the user may type at the prompt
Answers == { <<"y">>, <<" ", "Y", "\n">>, <<"n">>, <<>>, <<"y", "e", "s">> }

\* files found in the quarantine directory before the run
PreEntries == { [name |-> "a.pdf", from |-> 0], [name |-> "a_1.pdf", from |-> 0] }

\* the quarantine directory before the run: missing (and creatable or not),
\* writable with any old files and no report or a read-only one, or not
\* writable with no report or a writable one
QuarantineStates ==
  { [NoQuarantine EXCEPT !.creatable = c] : c \in BOOLEAN }
  \cup [exists : {TRUE}, creatable : {TRUE}, writable : {TRUE},
        entries : SUBSET PreEntries,
        report : {"none", "readonly"}, text : {<<>>}]
  \cup [exists : {TRUE}, creatable : {TRUE}, writable : {FALSE},
        entries : {{}},
        report : {"none", "writable"}, text : {<<>>}]

\* main() about to start, on a disk whose files have the attributes in A
InitMain(A) ==
  /\ variant \in {"root", "skill"}
  /\ roots = IF variant = "root" THEN WECHAT_PATHS ELSE <<WECHAT_BASE>>
  /\ present = Paths
  /\ attrs \in [Paths -> A]
  /\ documents = <<>>
  /\ pc = "scan"
  /\ groups = <<>> /\ selections = <<>> /\ gi = 1
  /\ results = NoResults
  /\ group_info = NoGroupInfo
  /\ ri = 1
  /\ answer = <<>>
  /\ quarantine \in QuarantineStates
  /\ moved_count = 0
  /\ moves = <<>>
  /\ mutations = 0
  /\ output = "none"
  /\ error = "none"
  /\ vanished = 0

Init == InitMain([content : Contents, ctime : Times, readable : {TRUE}])

\* a disk where every file is a copy of the same content
InitCopies == InitMain([content : {<<0, 0>>}, ctime : Times, readable : {TRUE}])

\* the run ends on an exception
Crash(e) == pc' = "crashed" /\ error' = e

\* [1/4] scan_documents, and the return when nothing was found
MainScan ==
  /\ pc = "scan"
  /\ documents' =
       IF variant = "root"
       THEN LET docs == scan_documents_root(WECHAT_PATHS, present)
            IN  IF docs = <<>> THEN <<>> ELSE << [type |-> "doc", files |-> docs] >>
       ELSE scan_documents_skill(WECHAT_BASE, SCAN_TARGETS, MIN_FILE_SIZE, present)
  /\ pc' = IF documents' = <<>> THEN "exit" ELSE "find"
  /\ UNCHANGED << variant, attrs, present, roots, groups, selections, gi,
                  MainVars, vanished >>

\* [2/4] find_duplicates, once (root) or once per scan target (skill), and
\* the return when there is no duplicate
MainFind ==
  /\ pc = "find"
  /\ groups' =
       Concat([ k \in 1..Len(documents) |->
         LET found == find_duplicates(documents[k].files, present)
         IN  [ n \in 1..Len(found) |->
               [type |-> documents[k].type, hash |-> found[n].hash,
                files |-> found[n].files] ] ])
  /\ pc' = IF groups' = <<>> THEN "exit" ELSE "plan_select"
  /\ gi' = 1
  /\ UNCHANGED << variant, attrs, present, roots, documents, selections,
                  MainVars, vanished >>

\* [3/4] the head of the preview loop: select_keeper, group_info, and in
\* the root variant the print of the keeper's creation time
MainSelect ==
  /\ pc = "plan_select"
  /\ LET files == groups[gi].files
         sel   == select_keeper(files, present)
     IN  /\ selections' = Append(selections,
                            [files |-> files, keeper |-> sel.keeper,
                             to_remove |-> sel.to_remove, seen |-> present])
         /\ group_info' = [type |-> groups[gi].type, keeper |-> sel.keeper,
                           removed |-> <<>>]
         /\ IF variant = "root" /\ get_creation_time(sel.keeper, present) = Inf
            THEN Crash("overflow")  \* datetime.fromtimestamp(inf)
            ELSE pc' = "plan_remove" /\ error' = error
  /\ ri' = 1
  /\ UNCHANGED << variant, attrs, present, roots, documents, groups, gi,
                  results, answer, quarantine, moved_count, moves, mutations,
                  output, vanished >>

\* the body of "for f in to_remove", and after the last f the end of the
\* group's iteration
MainPlanRemoval ==
  /\ pc = "plan_remove"
  /\ LET to_remove == selections[gi].to_remove
         f         == to_remove[ri]
         statOk    == Exists(f, present)
         info      == IF statOk
                      THEN [group_info EXCEPT !.removed = Append(@,
                              [original |-> f, quarantine |-> "", size |-> Size(f)])]
                      ELSE group_info
         saved     == IF statOk THEN results.saved_bytes + Size(f)
                      ELSE results.saved_bytes
     IN  IF ~statOk /\ variant = "root"
         THEN /\ Crash("stat")   \* f.stat() raises, nothing catches it
              /\ UNCHANGED << results, group_info, gi, ri >>
         ELSE IF ri < Len(to_remove)
         THEN /\ group_info' = info
              /\ results' = [results EXCEPT !.saved_bytes = saved]
              /\ ri' = ri + 1
              /\ UNCHANGED << pc, error, gi >>
         ELSE /\ group_info' = info
              /\ results' = [groups |-> Append(results.groups, info),
                             removed_count |-> results.removed_count + Len(to_remove),
                             saved_bytes |-> saved]
              /\ ri' = 1
              /\ gi' = gi + 1
              /\ pc' = IF gi = Len(groups) THEN "confirm" ELSE "plan_select"
              /\ error' = error
  /\ UNCHANGED << variant, attrs, present, roots, documents, groups,
                  selections, answer, quarantine, moved_count, moves,
                  mutations, output, vanished >>

\* [4/4] the prompt
MainConfirm ==
  /\ pc = "confirm"
  /\ \E ans \in Answers :
       /\ answer' = ans
       /\ pc' = IF Confirmed(ans) THEN "mkdir" ELSE "cancelled"
  /\ UNCHANGED << variant, attrs, present, roots, documents, groups,
                  selections, results, group_info, gi, ri, quarantine,
                  moved_count, moves, mutations, output, error, vanished >>

\* the first record at or after (g, r) in "for group / for removed"
RECURSIVE FirstRecord(_, _, _)
FirstRecord(rg, g, r) ==
  IF g > Len(rg) THEN <<g, 1>>
  ELSE IF r <= Len(rg[g].removed) THEN <<g, r>>
  ELSE FirstRecord(rg, g + 1, 1)

\* QUARANTINE_DIR.mkdir(parents=True, exist_ok=True)
MainMkdir ==
  /\ pc = "mkdir"
  /\ IF quarantine.exists
     THEN /\ UNCHANGED << quarantine, mutations, error >>
          /\ pc' = "move_check"
     ELSE IF quarantine.creatable
     THEN /\ quarantine' = [quarantine EXCEPT !.exists = TRUE, !.writable = TRUE]
          /\ mutations' = mutations + 1
          /\ pc' = "move_check"
          /\ error' = error
     ELSE /\ Crash("mkdir")
          /\ UNCHANGED << quarantine, mutations >>
  /\ gi' = FirstRecord(results.groups, 1, 1)[1]
  /\ ri' = FirstRecord(results.groups, 1, 1)[2]
  /\ UNCHANGED << variant, attrs, present, roots, documents, groups,
                  selections, results, group_info, answer, moved_count, moves,
                  output, vanished >>

\* the move loop has handled every record
LoopDone == gi > Len(results.groups)

\* "if original_path.exists():" for the record at (gi, ri)
MainMoveCheck ==
  /\ pc = "move_check"
  /\ ~LoopDone
  /\ LET original == results.groups[gi].removed[ri].original
         next     == FirstRecord(results.groups, gi, ri + 1)
     IN  IF Exists(original, present)
         THEN pc' = "move" /\ UNCHANGED << gi, ri >>
         ELSE pc' = "move_check" /\ gi' = next[1] /\ ri' = next[2]
  /\ UNCHANGED << variant, attrs, present, roots, documents, groups,
                  selections, results, group_info, answer, quarantine,
                  moved_count, moves, mutations, output, error, vanished >>

\* move_to_quarantine(original_path, QUARANTINE_DIR) and the lines after it
MainMove ==
  /\ pc = "move"
  /\ LET original    == results.groups[gi].removed[ri].original
         target_path == TargetPath(original, Taken(quarantine))
         next        == FirstRecord(results.groups, gi, ri + 1)
     IN  IF ~Exists(original, present)
         THEN /\ Crash("move_missing")  \* shutil.move: FileNotFoundError
              /\ UNCHANGED << present, quarantine, results, moved_count,
                              moves, mutations, gi, ri >>
         ELSE IF ~quarantine.writable
         THEN /\ Crash("move_perm")     \* shutil.move: PermissionError
              /\ UNCHANGED << present, quarantine, results, moved_count,
                              moves, mutations, gi, ri >>
         ELSE /\ present' = present \ {original}
              /\ quarantine' = [quarantine EXCEPT !.entries =
                   { e \in @ : e.name # target_path }
                   \cup { [name |-> target_path, from |-> original] }]
              /\ results' = [results EXCEPT
                   !.groups[gi].removed[ri].quarantine = target_path]
              /\ moved_count' = IF variant = "skill" THEN moved_count + 1
                                ELSE moved_count
              /\ moves' = Append(moves,
                   [src |-> original, dst |-> target_path,
                    free |-> target_path \notin Taken(quarantine)])
              /\ mutations' = mutations + 1
              /\ gi' = next[1] /\ ri' = next[2]
              /\ pc' = "move_check"
              /\ error' = error
  /\ UNCHANGED << variant, attrs, roots, documents, groups, selections,
                  group_info, answer, output, vanished >>

\* the summary table of generate_report
generate_report(res) ==
  << Len(res.groups), res.removed_count, res.saved_bytes >>

\* REPORT_FILE.write_text(generate_report(...)) and the closing prints
MainReport ==
  /\ pc = "move_check"
  /\ LoopDone
  /\ LET canWrite == \/ quarantine.report \in {"writable", "written"}
                     \/ quarantine.report = "none" /\ quarantine.writable
     IN  IF canWrite
         THEN /\ quarantine' = [quarantine EXCEPT !.report = "written",
                                  !.text = generate_report(results)]
              /\ mutations' = mutations + 1
              /\ output' = IF variant = "skill" /\ moved_count # results.removed_count
                           THEN "warning" ELSE "complete"
              /\ pc' = "done"
              /\ error' = error
         ELSE /\ Crash("report")      \* write_text: PermissionError
              /\ UNCHANGED << quarantine, mutations, output >>
  /\ UNCHANGED << variant, attrs, present, roots, documents, groups,
                  selections, results, group_info, gi, ri, answer,
                  moved_count, moves, vanished >>

Next ==
  \/ Vanish
  \/ MainScan
  \/ MainFind
  \/ MainSelect
  \/ MainPlanRemoval
  \/ MainConfirm
  \/ MainMkdir
  \/ MainMoveCheck
  \/ MainMove
  \/ MainReport

Spec == Init /\ [][Next]_vars

SpecCopies == InitCopies /\ [][Next]_vars

(* ------------------------------- claims ------------------------------- *)

Scanned == documents[1].files
FindDone == pc \in {"select", "done"}
InGroup(p) == \E k \in 1..Len(groups) : p \in Range(groups[k].files)
SameGroup(p, q) ==
  \E k \in 1..Len(groups) : {p, q} \subseteq Range(groups[k].files)
DigestPresent(p) == p \in present /\ attrs[p].readable
TrueDigest(p) == Md5(1, attrs[p].content)

\* C1: once find_duplicates has run on a list of files, two files of the list
\* are in the same group exactly when both have a size and a digest, the
\* sizes are equal and the digests are equal; a file whose digest is absent
\* is in no group.
C1_SameGroupIffSizeAndDigest ==
  FindDone =>
    /\ \A p, q \in Range(Scanned) :
         p # q =>
           ( SameGroup(p, q) <=>
               /\ DigestPresent(p) /\ DigestPresent(q)
               /\ Size(p) = Size(q)
               /\ TrueDigest(p) = TrueDigest(q) )
    /\ \A p \in Range(Scanned) : ~DigestPresent(p) => ~InGroup(p)

\* two files are grouped while an unreadable file of the same size and the
\* same true content stays out of every group
C1_Witness ==
  /\ FindDone
  /\ \E p, q, u \in Range(Scanned) :
       /\ p # q /\ SameGroup(p, q)
       /\ u \in present /\ ~attrs[u].readable
       /\ attrs[u].content = attrs[p].content
       /\ ~InGroup(u)

\* the creation time select_keeper saw for p
SeenTime(sel, p) == IF p \in sel.seen THEN attrs[p].ctime ELSE Inf
TimeReadable(sel, p) == p \in sel.seen
SortedOf(sel) == <<sel.keeper>> \o sel.to_remove

\* C4: every selection has one keeper, a member of the group, the others
\* being the removals; no member with a readable creation time is earlier
\* than the keeper, and when some member's time is readable the keeper's is.
C4_KeeperIsEarliest ==
  \A k \in 1..Len(selections) :
    LET sel == selections[k] IN
      /\ sel.keeper \in Range(sel.files)
      /\ Len(sel.to_remove) = Len(sel.files) - 1
      /\ \A m \in Range(sel.files) :
           TimeReadable(sel, m) =>
             /\ TimeReadable(sel, sel.keeper)
             /\ attrs[sel.keeper].ctime <= attrs[m].ctime

\* a group with a member whose time could not be read, a member created
\* later than the keeper, and a keeper with a real time
C4_Witness ==
  \E k \in 1..Len(selections) :
    LET sel == selections[k] IN
      /\ \E m \in Range(sel.files) : ~TimeReadable(sel, m)
      /\ TimeReadable(sel, sel.keeper)
      /\ \E m \in Range(sel.files) :
           TimeReadable(sel, m) /\ attrs[m].ctime > attrs[sel.keeper].ctime

\* the place of p in the scan
ScanPos(p) == CHOOSE i \in 1..Len(Scanned) : Scanned[i] = p

\* C6: members of a group with equal creation times leave select_keeper in
\* the order of the scan; the keeper is the first scanned of the earliest.
C6_TiesKeepScanOrder ==
  \A k \in 1..Len(selections) :
    LET sel == selections[k]
        out == SortedOf(sel)
    IN  /\ \A i, j \in 1..Len(out) :
             (i < j /\ SeenTime(sel, out[i]) = SeenTime(sel, out[j]))
               => ScanPos(out[i]) < ScanPos(out[j])
        /\ \A m \in Range(sel.files) :
             SeenTime(sel, m) = SeenTime(sel, sel.keeper)
               => ScanPos(sel.keeper) <= ScanPos(m)

\* a keeper tied with another member, where the scan order is not the order
\* of the paths
C6_Witness ==
  \E k \in 1..Len(selections) :
    LET sel == selections[k] IN
      \E m \in Range(sel.to_remove) :
        /\ SeenTime(sel, m) = SeenTime(sel, sel.keeper)
        /\ TimeReadable(sel, m)
        /\ m < sel.keeper

\* C5: for every group, keeper plus removals are the members, the keeper is
\* not among the removals, there is one keeper, and no path kept by a group
\* is planned for removal.
C5_KeeperApartFromRemovals ==
  \A k \in 1..Len(selections) :
    LET sel == selections[k] IN
      /\ {sel.keeper} \cup Range(sel.to_remove) = Range(sel.files)
      /\ sel.keeper \notin Range(sel.to_remove)
      /\ Len(sel.to_remove) = Len(sel.files) - 1
      /\ \A l \in 1..Len(selections) :
           sel.keeper \notin Range(selections[l].to_remove)

(* --------------------------- claims on main --------------------------- *)

Answered ==
  \/ pc \in {"cancelled", "mkdir", "move_check", "move", "done"}
  \/ pc = "crashed" /\ error \in {"mkdir", "move_missing", "move_perm", "report"}
PlanComplete == Len(results.groups) = Len(groups) /\ groups # <<>>
Affirmative == LowerStr(Strip(answer)) = <<"y">>
Untouched ==
  /\ mutations = 0
  /\ moves = <<>>
  /\ quarantine.report # "written"
  /\ \A e \in quarantine.entries : e.from = 0

\* C2: the run has changed nothing on disk unless the whole plan was computed
\* and the answer, stripped and lower-cased, was y; on any other answer the
\* run is over, without an exception, and has changed nothing.
C2_NoMutationBeforeYes ==
  /\ ~Untouched => (Answered /\ PlanComplete /\ Affirmative)
  /\ (Answered /\ ~Affirmative) =>
       (pc = "cancelled" /\ error = "none" /\ Untouched)

\* a run that created the quarantine directory, moved a file and wrote the
\* report after the answer " Y"
C2_Witness ==
  /\ pc = "done"
  /\ answer = <<" ", "Y", "\n">>
  /\ moves # <<>>
  /\ mutations = Len(moves) + 2

\* the records the move loop has gone past
Handled(g, r) ==
  \/ pc \in {"move_check", "move"} /\ (g < gi \/ (g = gi /\ r < ri))
  \/ pc = "done"
  \/ pc = "crashed" /\ error = "report"
  \/ pc = "crashed" /\ error \in {"move_missing", "move_perm"}
       /\ (g < gi \/ (g = gi /\ r < ri))

C7_VanishedSourceSkipped ==
  /\ error # "move_missing"
  /\ \A g \in 1..Len(results.groups) :
       \A r \in 1..Len(results.groups[g].removed) :
         LET rec == results.groups[g].removed[r] IN
           (Handled(g, r) /\ \A i \in 1..Len(moves) : moves[i].src # rec.original)
             => rec.quarantine = ""

\* C8: when a confirmed run ends, the warning is shown exactly when the
\* number of files moved differs from the planned removal count.
C8_WarningIffMismatch ==
  pc = "done" =>
    /\ quarantine.report = "written"
    /\ (output = "warning") <=> (Len(moves) # results.removed_count)

\* C9: when the run stops because the quarantine directory or the report
\* cannot be written, no file has been moved.
C9_NoMoveBeforeFatal ==
  (pc = "crashed" /\ error \in {"mkdir", "move_perm", "report"})
    => (moves = <<>> /\ \A e \in quarantine.entries : e.from = 0)

PlanFinished == pc \in {"confirm", "cancelled", "mkdir", "move_check", "move", "done"}
Records == Concat([ g \in 1..Len(results.groups) |-> results.groups[g].removed ])

\* C10: when the plan is finished, removed_count is the number of removal
\* records and saved_bytes is the sum of their sizes.
C10_TotalsMatchRecords ==
  PlanFinished =>
    /\ results.removed_count = Len(Records)
    /\ results.saved_bytes = SumSeq([ i \in 1..Len(Records) |-> Records[i].size ])

====
